---- MODULE Spec2Model ----
(***************************************************************************)
(* Model of the GLBGCN skeleton backbone                                   *)
(* (mmaction/models/backbones/gblgcn.py): construction of the backbone and *)
(* of its blocks, weight initialisation, and the forward pass as a ten     *)
(* stage pipeline over tensor shapes, tensor storages (for aliasing and    *)
(* in-place writes) and, for the graph convolution and the edge importance *)
(* product, tensor values.                                                 *)
(***************************************************************************)
EXTENDS Integers, Sequences, FiniteSets, TLC

VARIABLES
    pc,          \* position of the backbone: new / built / failed / initialised / loop / done / error
    args,        \* constructor arguments of GLBGCN
    net,         \* the constructed backbone (self)
    inp,         \* the input handed to forward
    heap,        \* tensor storages: next free id and the ids written in place
    xs,          \* forward's local tensors: x_pos, x_feature, x_feature_clone, x
    stage,       \* position of the zip iteration of forward's loop
    i,           \* forward's residue counter i
    hist,        \* one record per executed stage
    err,         \* the exception that ended construction / forward, or "none"
    params,      \* after init_weights: provenance of every module's parameters
    initOutcome, \* init_weights: what the call did
    blk,         \* a stand-alone GLBGCNBlock: arguments, object, forward result
    unit,        \* a stand-alone ConvTemporalGraphical call
    edge         \* edge importance harness: A, the importance list, the products

vars == <<pc, args, net, inp, heap, xs, stage, i, hist, err, params,
          initOutcome, blk, unit, edge>>

(***************************************************************************)
(* Bounds of the model.                                                    *)
(***************************************************************************)
MaxN == 2
MaxM == 2
MaxT == 2
MaxV == 2
MaxK == 2
MaxKernel == 3
MaxValue == 1
MaxSeed == 2

(***************************************************************************)
(* Program constants.                                                      *)
(***************************************************************************)
TemporalKernelSize == 9
AuxChannels == 32

InChannelsSet == {2, 3}
ReductionSet == {"avg", "max", "sum"}

\* F applied to the value of v: v is computed once, however often F uses it.
Eval(v, F(_)) == CHOOSE r \in {F(x) : x \in {v}} : TRUE

Min(a, b) == IF a < b THEN a ELSE b
Max(a, b) == IF a < b THEN b ELSE a

(***************************************************************************)
(* Tensors are records of a shape and the id of the storage they view.     *)
(***************************************************************************)
Tensor(n, c, t, v, st) == [n |-> n, c |-> c, t |-> t, v |-> v, st |-> st]
NoTensor == Tensor(0, 0, 0, 0, 0)

\* A freshly allocated storage: the result of an out-of-place operation.
Alloc(h) == [h EXCEPT !.next = h.next + 1]
\* An in-place operation writes the storage of its operand.
WriteSt(h, st) == [h EXCEPT !.written = h.written \cup {st}]

\* Variant: the padding is left out of the output length.
ConvOutNoPadding(len, kernel, stride, padding) ==
    (len - (kernel - 1) - 1) \div stride + 1

\* torch.nn.Conv2d output length along one axis.
ConvOut(len, kernel, stride, padding) ==
    (len + 2 * padding - (kernel - 1) - 1) \div stride + 1

(***************************************************************************)
(* GLBGCNBlock.__init__                                                    *)
(***************************************************************************)
\* Variant: only the arity of kernel_size is checked.
KernelSizeValidArity(kernel_size) == Len(kernel_size) = 2

KernelSizeValid(kernel_size) ==
    /\ Len(kernel_size) = 2
    /\ kernel_size[1] % 2 = 1

\* Variant: the stride is not looked at when choosing the identity.
ResidualKindNoStride(in_channels, out_channels, stride, residual) ==
    IF ~residual THEN "zero"
    ELSE IF in_channels = out_channels THEN "identity"
    ELSE "projection"

ResidualKind(in_channels, out_channels, stride, residual) ==
    IF ~residual THEN "zero"
    ELSE IF in_channels = out_channels /\ stride = 1 THEN "identity"
    ELSE "projection"

GLBGCNBlockInit(in_channels, out_channels, kernel_size, stride, residual) ==
    IF ~KernelSizeValid(kernel_size)
    THEN [ok |-> FALSE, in |-> in_channels, out |-> out_channels,
          tk |-> 0, padding |-> 0, gcnK |-> 0, stride |-> stride,
          residual |-> "none"]
    ELSE [ok |-> TRUE, in |-> in_channels, out |-> out_channels,
          tk |-> kernel_size[1],
          padding |-> (kernel_size[1] - 1) \div 2,
          gcnK |-> kernel_size[2],
          stride |-> stride,
          residual |-> ResidualKind(in_channels, out_channels, stride, residual)]

(***************************************************************************)
(* GLBGCN.__init__                                                         *)
(***************************************************************************)
ReductionValid(reduction) == reduction \in {"avg", "max"}

\* Variant: the first stride-2 block sits one stage later.
BlockScheduleLateStride(in_channels) ==
    << [in |-> in_channels, out |-> 64, stride |-> 1, residual |-> FALSE],
       [in |-> 64,  out |-> 64,  stride |-> 1, residual |-> TRUE],
       [in |-> 64,  out |-> 64,  stride |-> 1, residual |-> TRUE],
       [in |-> 64,  out |-> 64,  stride |-> 1, residual |-> TRUE],
       [in |-> 64,  out |-> 128, stride |-> 1, residual |-> TRUE],
       [in |-> 128, out |-> 128, stride |-> 2, residual |-> TRUE],
       [in |-> 128, out |-> 128, stride |-> 1, residual |-> TRUE],
       [in |-> 128, out |-> 256, stride |-> 2, residual |-> TRUE],
       [in |-> 256, out |-> 256, stride |-> 1, residual |-> TRUE],
       [in |-> 256, out |-> 256, stride |-> 1, residual |-> TRUE] >>

\* The arguments of the ten GLBGCNBlock constructions, in order.
BlockSchedule(in_channels) ==
    << [in |-> in_channels, out |-> 64, stride |-> 1, residual |-> FALSE],
       [in |-> 64,  out |-> 64,  stride |-> 1, residual |-> TRUE],
       [in |-> 64,  out |-> 64,  stride |-> 1, residual |-> TRUE],
       [in |-> 64,  out |-> 64,  stride |-> 1, residual |-> TRUE],
       [in |-> 64,  out |-> 128, stride |-> 2, residual |-> TRUE],
       [in |-> 128, out |-> 128, stride |-> 1, residual |-> TRUE],
       [in |-> 128, out |-> 128, stride |-> 1, residual |-> TRUE],
       [in |-> 128, out |-> 256, stride |-> 2, residual |-> TRUE],
       [in |-> 256, out |-> 256, stride |-> 1, residual |-> TRUE],
       [in |-> 256, out |-> 256, stride |-> 1, residual |-> TRUE] >>

Linear(in_features, out_features) == [in |-> in_features, out |-> out_features]

\* Variant: the fifth projection already widens to 128 channels.
FeatureTransformWide(in_channels) ==
    << Linear(AuxChannels, in_channels),
       Linear(64, 64), Linear(64, 64), Linear(64, 64), Linear(64, 128),
       Linear(128, 128), Linear(128, 128), Linear(128, 128),
       Linear(256, 256), Linear(256, 256) >>

FeatureTransform(in_channels) ==
    << Linear(AuxChannels, in_channels),
       Linear(64, 64), Linear(64, 64), Linear(64, 64), Linear(64, 64),
       Linear(128, 128), Linear(128, 128), Linear(128, 128),
       Linear(256, 256), Linear(256, 256) >>

FeatureResidue(in_channels) ==
    << Linear(AuxChannels, in_channels),
       Linear(AuxChannels, 64), Linear(AuxChannels, 64),
       Linear(AuxChannels, 64) >>

\* Storage of the buffer A, and of the importance parameter of block s.
StA == 1
StImportance(s) == 1 + s

\* One entry per block: a Parameter of ones of A's size, or the number 1.
EdgeImportance(edge_importance_weighting, nblocks) ==
    [s \in 1..nblocks |->
        IF edge_importance_weighting
        THEN [scalar |-> FALSE, st |-> StImportance(s)]
        ELSE [scalar |-> TRUE, st |-> 0]]

\* Graph(**graph_cfg).A: K partitions of a V x V adjacency.
GraphA(graph_cfg) == [k |-> graph_cfg.k, v |-> graph_cfg.nodes,
                      w |-> graph_cfg.nodes, st |-> StA]

GLBGCNInit(a) ==
    LET A == GraphA(a.graph_cfg)
        kernel_size == <<TemporalKernelSize, A.k>>
        sched == BlockSchedule(a.in_channels)
        blocks == [s \in 1..Len(sched) |->
                     GLBGCNBlockInit(sched[s].in, sched[s].out, kernel_size,
                                     sched[s].stride, sched[s].residual)]
    IN [A |-> A,
        in_channel |-> a.in_channels,
        reduction |-> a.reduction,
        data_bn |-> a.data_bn,
        bn_features |-> a.in_channels * (A.v - 1),
        bn_feature_features |-> AuxChannels * (A.v - 1),
        st_gcn_networks |-> blocks,
        feature_transform |-> FeatureTransform(a.in_channels),
        feature_residue |-> FeatureResidue(a.in_channels),
        edge_importance |-> EdgeImportance(a.edge_importance_weighting,
                                           Len(blocks)),
        pretrained |-> a.pretrained]

(***************************************************************************)
(* torch.nn.BatchNorm1d / BatchNorm2d forward: the channel axis must have  *)
(* num_features entries, and in training mode every channel must see more  *)
(* than one value.                                                         *)
(***************************************************************************)
BatchNormError(features, num_features, values_per_channel, training) ==
    IF training /\ values_per_channel = 1 THEN "ValueError"
    ELSE IF features # num_features THEN "RuntimeError"
    ELSE "none"

Failed(e, h) == [err |-> e, t |-> NoTensor, h |-> h]
Ok(t, h) == [err |-> "none", t |-> t, h |-> h]

(***************************************************************************)
(* ConvTemporalGraphical.forward on shapes: the kernel size assertion, the *)
(* 1x1 convolution to out_channels * K channels, the view that splits K    *)
(* off the channel axis and the einsum 'nkctv,kvw->nctw'.                  *)
(***************************************************************************)
GcnForward(b, x, adj, h) ==
    IF adj.k # b.gcnK THEN Failed("AssertionError", h)
    ELSE IF x.c # b.in THEN Failed("RuntimeError", h)
    ELSE IF x.v # adj.v THEN Failed("RuntimeError", h)
    ELSE LET conv == Tensor(x.n, b.out * b.gcnK, x.t, x.v, h.next)
             h1 == Alloc(h)
             out == Tensor(conv.n, conv.c \div b.gcnK, conv.t, adj.w, h1.next)
         IN Ok(out, Alloc(h1))

(***************************************************************************)
(* GLBGCNBlock.tcn: BatchNorm2d, ReLU(inplace), Conv2d((k,1),(stride,1),   *)
(* padding), BatchNorm2d, Dropout(inplace).                                *)
(***************************************************************************)
TcnForward(b, g, h, training) ==
    LET e1 == BatchNormError(g.c, b.out, g.n * g.t * g.v, training)
        bn1 == Tensor(g.n, g.c, g.t, g.v, h.next)
        h1 == WriteSt(Alloc(h), bn1.st)
        conv == Tensor(bn1.n, b.out,
                       ConvOut(bn1.t, b.tk, b.stride, b.padding),
                       ConvOut(bn1.v, 1, 1, 0), h1.next)
        h2 == Alloc(h1)
        e2 == BatchNormError(conv.c, b.out, conv.n * conv.t * conv.v, training)
        bn2 == Tensor(conv.n, conv.c, conv.t, conv.v, h2.next)
        h3 == WriteSt(Alloc(h2), bn2.st)
    IN IF e1 # "none" THEN Failed(e1, h)
       ELSE IF bn1.t + 2 * b.padding < b.tk THEN Failed("RuntimeError", h1)
       ELSE IF e2 # "none" THEN Failed(e2, h2)
       ELSE Ok(bn2, h3)

(***************************************************************************)
(* GLBGCNBlock.residual: zero (the number 0), identity (x itself) or       *)
(* Conv2d(kernel 1, stride (stride,1)) followed by BatchNorm2d.            *)
(***************************************************************************)
ResidualForward(b, x, h, training) ==
    IF b.residual = "zero" THEN Ok(NoTensor, h)
    ELSE IF b.residual = "identity" THEN Ok(x, h)
    ELSE LET conv == Tensor(x.n, b.out, ConvOut(x.t, 1, b.stride, 0),
                            ConvOut(x.v, 1, 1, 0), h.next)
             h1 == Alloc(h)
             e == BatchNormError(conv.c, b.out, conv.n * conv.t * conv.v,
                                 training)
             bn == Tensor(conv.n, conv.c, conv.t, conv.v, h1.next)
         IN IF x.c # b.in THEN Failed("RuntimeError", h)
            ELSE IF e # "none" THEN Failed(e, h1)
            ELSE Ok(bn, Alloc(h1))

\* Broadcasting of one axis of an out-of-place addition.
Broadcastable(p, q) == p = q \/ p = 1 \/ q = 1

AddError(a, r) ==
    IF /\ Broadcastable(a.n, r.n) /\ Broadcastable(a.c, r.c)
       /\ Broadcastable(a.t, r.t) /\ Broadcastable(a.v, r.v)
    THEN "none" ELSE "RuntimeError"

(***************************************************************************)
(* GLBGCNBlock.forward                                                     *)
(***************************************************************************)
BlockFailed(e, adj, h) ==
    [err |-> e, t |-> NoTensor, h |-> h, res |-> NoTensor, tcn |-> NoTensor,
     adj |-> adj]

\* x = self.tcn(x) + res; return self.relu(x), adj_mat
BlockSum(b, res, tcn, adj) ==
    LET scalar == b.residual = "zero"
        sum == IF scalar
               THEN Tensor(tcn.t.n, tcn.t.c, tcn.t.t, tcn.t.v, tcn.h.next)
               ELSE Tensor(Max(tcn.t.n, res.t.n), Max(tcn.t.c, res.t.c),
                           Max(tcn.t.t, res.t.t), Max(tcn.t.v, res.t.v),
                           tcn.h.next)
    IN IF tcn.err # "none" THEN BlockFailed(tcn.err, adj, tcn.h)
       ELSE IF ~scalar /\ AddError(tcn.t, res.t) # "none"
            THEN BlockFailed("RuntimeError", adj, tcn.h)
       ELSE [err |-> "none", t |-> sum,
             h |-> WriteSt(Alloc(tcn.h), sum.st),
             res |-> res.t, tcn |-> tcn.t, adj |-> adj]

GLBGCNBlockForward(b, x, adj, h, training) ==
    Eval(ResidualForward(b, x, h, training), LAMBDA res :
      IF res.err # "none" THEN BlockFailed(res.err, adj, h)
      ELSE Eval(GcnForward(b, x, adj, res.h), LAMBDA gcn :
        IF gcn.err # "none" THEN BlockFailed(gcn.err, adj, h)
        ELSE Eval(TcnForward(b, gcn.t, gcn.h, training), LAMBDA tcn :
               BlockSum(b, res, tcn, adj))))

\* Variant: the projection writes its result into the storage of its input.
LinearInPlace(fc, x, h) ==
    IF x.c # fc.in THEN [err |-> "RuntimeError", t |-> NoTensor, h |-> h]
    ELSE [err |-> "none", t |-> Tensor(x.n, fc.out, x.t, x.v, x.st),
          h |-> WriteSt(h, x.st)]

(***************************************************************************)
(* torch.nn.Linear forward on a channels-last view: the projected axis     *)
(* must have in_features entries; the result is a new tensor.              *)
(***************************************************************************)
LinearForward(fc, x, h) ==
    IF x.c # fc.in THEN Failed("RuntimeError", h)
    ELSE Ok(Tensor(x.n, fc.out, x.t, x.v, h.next), Alloc(h))

\* x += r: r must broadcast to the shape of x, whose storage is written.
InplaceAddError(x, r) ==
    IF /\ r.n \in {x.n, 1} /\ r.c \in {x.c, 1}
       /\ r.t \in {x.t, 1} /\ r.v \in {x.v, 1}
    THEN "none" ELSE "RuntimeError"

\* torch.cat((x_pos, x_feature), dim=3)
CatError(a, b) ==
    IF a.n = b.n /\ a.c = b.c /\ a.t = b.t THEN "none" ELSE "RuntimeError"

(***************************************************************************)
(* GLBGCN.forward, before the loop: the channel split, the normalisation   *)
(* of the feature stream and its reduction over the node axis, the cached  *)
(* x_feature_clone (a permuted view of the reduced tensor), and the        *)
(* normalisation of the pose stream.                                       *)
(***************************************************************************)
NormalizeStream(c, in, num_features, data_bn, h) ==
    LET nm == in.n * in.m
        h1 == Alloc(h)                      \* permute(...).contiguous()
        e == IF data_bn
             THEN BatchNormError(in.v * c, num_features, nm * in.t,
                                 in.training)
             ELSE "none"
        h2 == IF data_bn THEN Alloc(h1) ELSE h1
        out == Tensor(nm, c, in.t, in.v, h2.next)
    IN IF e # "none" THEN Failed(e, h1) ELSE Ok(out, Alloc(h2))

PrologueFailed(e, h) ==
    [err |-> e, x_pos |-> NoTensor, x_feature |-> NoTensor,
     clone |-> NoTensor, x |-> NoTensor, h |-> h]

ForwardPrologue(nt, in, h) ==
    LET c_pos == Min(nt.in_channel, in.c)
        c_feature == Max(in.c - nt.in_channel, 0)
    IN Eval(NormalizeStream(c_feature, in, nt.bn_feature_features,
                            nt.data_bn, h), LAMBDA f :
         IF f.err # "none" THEN PrologueFailed(f.err, h)
         ELSE Eval(Tensor(f.t.n, f.t.c, f.t.t, 1, f.h.next), LAMBDA reduced :
           Eval(NormalizeStream(c_pos, in, nt.bn_features, nt.data_bn,
                                Alloc(f.h)), LAMBDA p :
             IF p.err # "none" THEN PrologueFailed(p.err, h)
             ELSE [err |-> "none", x_pos |-> p.t, x_feature |-> reduced,
                   clone |-> reduced, x |-> NoTensor, h |-> p.h])))

(***************************************************************************)
(* GLBGCN.forward, one iteration of the loop over                          *)
(* zip(st_gcn_networks, edge_importance, feature_transform).               *)
(* s and ii are 0-based like the source's indices.                         *)
(***************************************************************************)
\* Variant: the last residue layer is never reached.
ResidueAppliesShort(ii, nresidue) == ii < nresidue - 1

ResidueApplies(ii, nresidue) == ii < nresidue

StageFailed(e, loc, ii, h, s) ==
    [err |-> e, loc |-> loc, i |-> ii, h |-> h, rec |-> [s |-> s]]

\* torch.cat, self.A * importance, the block, and the split of its output.
StageBlock(nt, s, ii, loc, useRes, feat, h, training) ==
    LET pos == loc.x_pos
        cat == Tensor(pos.n, pos.c, pos.t, pos.v + feat.v, h.next)
        adj == [k |-> nt.A.k, v |-> nt.A.v, w |-> nt.A.w, st |-> h.next + 1]
        b == nt.st_gcn_networks[s + 1]
    IN IF CatError(pos, feat) # "none"
       THEN StageFailed("RuntimeError", loc, ii, h, s)
       ELSE Eval(GLBGCNBlockForward(b, cat, adj, Alloc(Alloc(h)), training),
                 LAMBDA out :
         IF out.err # "none" THEN StageFailed(out.err, loc, ii, h, s)
         ELSE [err |-> "none",
               loc |-> [x_pos |-> Tensor(out.t.n, out.t.c, out.t.t,
                                         Min(out.t.v, nt.A.v - 1), out.t.st),
                        x_feature |-> Tensor(out.t.n, out.t.c, out.t.t, 1,
                                             out.t.st),
                        clone |-> loc.clone,
                        x |-> out.t],
               i |-> IF useRes THEN ii + 1 ELSE ii,
               h |-> out.h,
               rec |-> [s |-> s,
                        residue |-> IF useRes THEN ii ELSE -1,
                        cloneRead |-> IF useRes THEN loc.clone ELSE NoTensor,
                        pos |-> pos, feat |-> feat, blockIn |-> cat,
                        adj |-> adj, res |-> out.res, tcn |-> out.tcn,
                        out |-> out.t, kind |-> b.residual,
                        stride |-> b.stride]])

ForwardStage(nt, s, ii, loc, h, training) ==
    Eval(LinearForward(nt.feature_transform[s + 1], loc.x_feature, h),
         LAMBDA fc :
      IF fc.err # "none" THEN StageFailed(fc.err, loc, ii, h, s)
      ELSE IF ResidueApplies(ii, Len(nt.feature_residue))
      THEN Eval(LinearForward(nt.feature_residue[ii + 1], loc.clone, fc.h),
                LAMBDA r :
             IF r.err # "none" THEN StageFailed(r.err, loc, ii, h, s)
             ELSE IF InplaceAddError(fc.t, r.t) # "none"
             THEN StageFailed("RuntimeError", loc, ii, h, s)
             ELSE Eval(WriteSt(r.h, fc.t.st), LAMBDA h2 :
                    StageBlock(nt, s, ii, loc, TRUE, fc.t, h2, training)))
      ELSE StageBlock(nt, s, ii, loc, FALSE, fc.t, fc.h, training))

(***************************************************************************)
(* GLBGCN.init_weights.  self.modules() lists the backbone's modules in    *)
(* registration order; params maps each to the provenance of its weights.  *)
(***************************************************************************)
RECURSIVE Flatten(_)
Flatten(ss) == IF ss = <<>> THEN <<>> ELSE Head(ss) \o Flatten(Tail(ss))

BlockModules(b) ==
    <<"GLBGCNBlock", "ConvTemporalGraphical", "Conv2d", "Sequential",
      "BatchNorm2d", "ReLU", "Conv2d", "BatchNorm2d", "Dropout">>
    \o (IF b.residual = "projection"
        THEN <<"Sequential", "Conv2d", "BatchNorm2d">> ELSE <<>>)
    \o <<"ReLU">>

Modules(nt, edge_importance_weighting) ==
    <<"GLBGCN">>
    \o (IF nt.data_bn THEN <<"BatchNorm1d", "BatchNorm1d">> ELSE <<>>)
    \o <<"ModuleList">>
    \o Flatten([s \in 1..Len(nt.st_gcn_networks) |->
                   BlockModules(nt.st_gcn_networks[s])])
    \o <<"ModuleList">>
    \o [s \in 1..Len(nt.feature_transform) |-> "Linear"]
    \o <<"ModuleList">>
    \o [s \in 1..Len(nt.feature_residue) |-> "Linear"]
    \o (IF edge_importance_weighting THEN <<"ParameterList">> ELSE <<>>)

IsStr(pretrained) == pretrained.type = "str"
IsNone(pretrained) == pretrained.type = "NoneType"

\* The from-scratch initialiser init_weights applies to a module, if any.
ScratchInit(kind) ==
    IF kind = "Conv2d" THEN "kaiming_init"
    ELSE IF kind = "Linear" THEN "normal_init"
    ELSE IF kind \in {"BatchNorm1d", "BatchNorm2d"} THEN "constant_init"
    ELSE "none"

\* Variant: every pretrained value that is not a string is treated as None.
InitWeightsNoTypeCheck(pretrained, modules, ps, checkpoint) ==
    IF IsStr(pretrained)
    THEN [outcome |-> "loaded",
          params |-> [m \in DOMAIN ps |->
                        IF m \in checkpoint THEN "checkpoint" ELSE ps[m]]]
    ELSE [outcome |-> "scratch",
          params |-> [m \in DOMAIN ps |->
                        IF ScratchInit(modules[m]) # "none"
                        THEN ScratchInit(modules[m]) ELSE ps[m]]]

\* checkpoint: the indices of the modules the checkpoint file has keys for.
InitWeights(pretrained, modules, ps, checkpoint) ==
    IF IsStr(pretrained)
    THEN [outcome |-> "loaded",
          params |-> [m \in DOMAIN ps |->
                        IF m \in checkpoint THEN "checkpoint" ELSE ps[m]]]
    ELSE IF IsNone(pretrained)
    THEN [outcome |-> "scratch",
          params |-> [m \in DOMAIN ps |->
                        IF ScratchInit(modules[m]) # "none"
                        THEN ScratchInit(modules[m]) ELSE ps[m]]]
    ELSE [outcome |-> "TypeError", params |-> ps]

(***************************************************************************)
(* The backbone as a state machine.                                        *)
(***************************************************************************)
\* The shape of Graph(layout, strategy).A, as the graph collaborator returns it.
CocoSpatial == [layout |-> "coco", strategy |-> "spatial", k |-> 3, nodes |-> 26]

GraphCfgs ==
    {[layout |-> "bounded", strategy |-> "bounded", k |-> k, nodes |-> n] :
        k \in 1..MaxK, n \in 2..(MaxV + 1)} \cup {CocoSpatial}

None == [type |-> "NoneType", value |-> ""]
PretrainedSet ==
    {None, [type |-> "str", value |-> "a.pth"], [type |-> "int", value |-> "0"],
     [type |-> "list", value |-> "[]"]}

\* Every bounded configuration without a checkpoint, and the experiment's
\* configuration (test_config_loc.py) with every kind of pretrained argument.
CtorArgs ==
    [in_channels : InChannelsSet, graph_cfg : GraphCfgs,
     edge_importance_weighting : BOOLEAN, data_bn : BOOLEAN,
     reduction : ReductionSet, pretrained : {None}]
    \cup
    [in_channels : {3}, graph_cfg : {CocoSpatial},
     edge_importance_weighting : {TRUE}, data_bn : {TRUE},
     reduction : {"avg"}, pretrained : PretrainedSet]

EndToEndInput ==
    [n |-> 2, m |-> 2, t |-> 30, v |-> 25, c |-> 3 + AuxChannels,
     training |-> TRUE]

Inputs(a) ==
    [n : 1..MaxN, m : 1..MaxM, t : 1..MaxT,
     v : (1..MaxV) \cup {a.graph_cfg.nodes - 1},
     c : {a.in_channels + AuxChannels, a.in_channels + 16},
     training : BOOLEAN]
    \cup {EndToEndInput}

NoArgs == [built |-> FALSE]
NoNet == [built |-> FALSE]
NoInput == [n |-> 0, m |-> 0, t |-> 0, v |-> 0, c |-> 0, training |-> FALSE]
NoLocals == [x_pos |-> NoTensor, x_feature |-> NoTensor, clone |-> NoTensor,
             x |-> NoTensor]
\* Storages 1..11 hold A and the ten importance parameters.
InitHeap == [next |-> StImportance(10) + 1, written |-> {}]

Init ==
    /\ pc = "new"
    /\ args = NoArgs
    /\ net = NoNet
    /\ inp = NoInput
    /\ heap = InitHeap
    /\ xs = NoLocals
    /\ stage = 0
    /\ i = 0
    /\ hist = <<>>
    /\ err = "none"
    /\ params = <<>>
    /\ initOutcome = "none"
    /\ blk = [phase |-> "idle"]
    /\ unit = [phase |-> "idle"]
    /\ edge = [phase |-> "idle"]

Construct ==
    /\ pc = "new"
    /\ \E a \in CtorArgs :
         /\ args' = a
         /\ IF ReductionValid(a.reduction)
            THEN /\ net' = GLBGCNInit(a)
                 /\ params' = <<>>
                 /\ pc' = "built"
                 /\ err' = "none"
            ELSE /\ net' = NoNet
                 /\ params' = <<>>
                 /\ pc' = "failed"
                 /\ err' = "AssertionError"
    /\ UNCHANGED <<inp, heap, xs, stage, i, hist, initOutcome, blk, unit, edge>>

\* Before init_weights every module holds the weights its constructor gave it.
AsConstructed(modules) == [m \in 1..Len(modules) |-> "default"]

\* The checkpoint files of the model: which modules they hold keys for.
Checkpoints(n) == {{}, 1..n, {m \in 1..n : m % 2 = 0}}

InitWeightsCall ==
    /\ pc = "built"
    /\ pc' = "initialised"
    /\ \E mods \in {Modules(net, args.edge_importance_weighting)} :
       \E ck \in Checkpoints(Len(mods)) :
       \E r \in {InitWeights(net.pretrained, mods, AsConstructed(mods), ck)} :
            /\ initOutcome' = r.outcome
            /\ params' = r.params
            /\ err' = IF r.outcome = "TypeError" THEN "TypeError" ELSE "none"
    /\ UNCHANGED <<args, net, inp, heap, xs, stage, i, hist, blk, unit, edge>>

ForwardBegin ==
    /\ pc = "built"
    /\ \E in \in Inputs(args) :
         \E r \in {ForwardPrologue(net, in, Alloc(heap))} :
            /\ inp' = in
            /\ err' = r.err
            /\ pc' = IF r.err = "none" THEN "loop" ELSE "error"
            /\ xs' = [x_pos |-> r.x_pos, x_feature |-> r.x_feature,
                      clone |-> r.clone, x |-> r.x]
            /\ heap' = r.h
    /\ stage' = 0
    /\ i' = 0
    /\ hist' = <<>>
    /\ UNCHANGED <<args, net, params, initOutcome, blk, unit, edge>>

ForwardLoop ==
    /\ pc = "loop"
    /\ stage < Len(net.st_gcn_networks)
    /\ \E r \in {ForwardStage(net, stage, i, xs, heap, inp.training)} :
          IF r.err = "none"
          THEN /\ xs' = r.loc
               /\ i' = r.i
               /\ heap' = r.h
               /\ hist' = Append(hist, r.rec)
               /\ stage' = stage + 1
               /\ UNCHANGED <<pc, err>>
          ELSE /\ pc' = "error"
               /\ err' = r.err
               /\ UNCHANGED <<xs, i, heap, hist, stage>>
    /\ UNCHANGED <<args, net, inp, params, initOutcome, blk, unit, edge>>

ForwardReturn ==
    /\ pc = "loop"
    /\ stage = Len(net.st_gcn_networks)
    /\ pc' = "done"
    /\ UNCHANGED <<args, net, inp, heap, xs, stage, i, hist, err, params,
                   initOutcome, blk, unit, edge>>

(***************************************************************************)
(* A stand-alone GLBGCNBlock: construction, then forward on values.  The   *)
(* temporal pipeline's output tcn(gcn(x)) and the projection's output are  *)
(* given as values; the block adds the residual and applies the ReLU.      *)
(***************************************************************************)
Relu(a) == IF a < 0 THEN 0 ELSE a

\* zero(x), identity(x), or the learned projection applied to x.
ResidualValue(kind, x, projected) ==
    IF kind = "zero" THEN 0
    ELSE IF kind = "identity" THEN x
    ELSE projected

BlockForwardValue(b, x, tcn_gcn_x, projected) ==
    Relu(tcn_gcn_x + ResidualValue(b.residual, x, projected))

RECURSIVE SeqsUpTo(_, _)
SeqsUpTo(S, n) ==
    IF n = 0 THEN {<<>>}
    ELSE LET shorter == SeqsUpTo(S, n - 1)
         IN shorter \cup {Append(q, e) : q \in shorter, e \in S}

KernelSizes == SeqsUpTo(0..MaxKernel, 3)
Values == (0 - MaxValue)..MaxValue

BlockConstruct ==
    /\ pc = "new"
    /\ pc' = "block"
    /\ \E cin \in 1..2, cout \in 1..2, ks \in KernelSizes, st \in 1..2,
          r \in BOOLEAN :
         LET b == GLBGCNBlockInit(cin, cout, ks, st, r)
         IN /\ blk' = [phase |-> IF b.ok THEN "built" ELSE "failed",
                       kernel_size |-> ks, residual |-> r, obj |-> b,
                       x |-> 0, tcn |-> 0, projected |-> 0, out |-> 0]
            /\ err' = IF b.ok THEN "none" ELSE "AssertionError"
    /\ UNCHANGED <<args, net, inp, heap, xs, stage, i, hist, params,
                   initOutcome, unit, edge>>

BlockCall ==
    /\ pc = "block"
    /\ blk.phase = "built"
    /\ \E x \in Values, g \in Values, p \in Values :
         blk' = [blk EXCEPT !.phase = "called", !.x = x, !.tcn = g,
                            !.projected = p,
                            !.out = BlockForwardValue(blk.obj, x, g, p)]
    /\ UNCHANGED <<pc, args, net, inp, heap, xs, stage, i, hist, err, params,
                   initOutcome, unit, edge>>

(***************************************************************************)
(* A stand-alone ConvTemporalGraphical.forward on values.  conv(x) is a    *)
(* contiguous tensor of shape (n, kc, t, v), given by its row-major        *)
(* storage; view() re-indexes the same storage as (n, K, kc // K, t, v);   *)
(* einsum 'nkctv,kvw->nctw' contracts k and v against adj_mat.             *)
(* Indices are 0-based like the source's.                                  *)
(***************************************************************************)
RECURSIVE SumSeq(_)
SumSeq(q) == IF q = <<>> THEN 0 ELSE Head(q) + SumSeq(Tail(q))

\* Variant: the view splits the channel axis as (C, K) instead of (K, C).
View5Inner(storage, n, k, c, t, v, K, C, T, V) ==
    storage[(((n * C + c) * K + k) * T + t) * V + v]

\* x.view(n, K, C, t, v)[n, k, c, t, v]: the element of the contiguous
\* storage at the row-major offset of that index.
View5(storage, n, k, c, t, v, K, C, T, V) ==
    storage[(((n * K + k) * C + c) * T + t) * V + v]

Einsum(storage, adj, N, K, C, T, V, W) ==
    [ix \in (0..(N - 1)) \X (0..(C - 1)) \X (0..(T - 1)) \X (0..(W - 1)) |->
        SumSeq([j \in 1..(K * V) |->
            LET k == (j - 1) \div V
                v == (j - 1) % V
            IN View5(storage, ix[1], k, ix[2], ix[3], v, K, C, T, V)
               * adj.val[<<k, v, ix[4]>>]])]

ConvTemporalGraphicalForward(kernel_size, conv, adj) ==
    IF adj.k # kernel_size
    THEN [err |-> "AssertionError", convRan |-> FALSE, x |-> <<>>,
          adj_mat |-> adj]
    ELSE [err |-> "none", convRan |-> TRUE,
          x |-> Einsum(conv.storage, adj, conv.n, kernel_size,
                       conv.kc \div kernel_size, conv.t, conv.v, adj.w),
          adj_mat |-> adj]

\* Test data: entries that differ from position to position.
Gen(seed, ix) == ((seed + 3 * ix + ix * ix) % 5) - 2

AdjValue(seed, K, V) ==
    [k |-> K, v |-> V, w |-> V,
     val |-> [ix \in (0..(K - 1)) \X (0..(V - 1)) \X (0..(V - 1)) |->
                Gen(seed, (ix[1] * V + ix[2]) * V + ix[3])]]

ConvValue(seed, N, KC, T, V) ==
    [n |-> N, kc |-> KC, t |-> T, v |-> V,
     storage |-> [o \in 0..(N * KC * T * V - 1) |-> Gen(seed + 1, o)]]

UnitCall ==
    /\ pc = "new"
    /\ pc' = "unit"
    /\ \E K \in 1..MaxK, Ka \in 1..MaxK, cout \in 1..MaxK, N \in 1..MaxN,
          T \in 1..MaxT, V \in 1..MaxV, seed \in 1..MaxSeed :
         LET adj == AdjValue(seed, Ka, V)
             conv == ConvValue(seed, N, cout * K, T, V)
             r == ConvTemporalGraphicalForward(K, conv, adj)
         IN /\ unit' = [phase |-> IF r.err = "none" THEN "returned"
                                  ELSE "failed",
                        kernel_size |-> K, out_channels |-> cout,
                        conv |-> conv, adj |-> adj, result |-> r]
            /\ err' = r.err
    /\ UNCHANGED <<args, net, inp, heap, xs, stage, i, hist, params,
                   initOutcome, blk, edge>>

(***************************************************************************)
(* Edge importance on values: the list built by GLBGCN.__init__, and the   *)
(* product self.A * importance that forward hands to each block.           *)
(***************************************************************************)
Ones(A) == [ix \in DOMAIN A.val |-> 1]

\* Variant: the disabled mode multiplies by 0.
EdgeImportanceDisabledZero(edge_importance_weighting, A, nblocks) ==
    [s \in 1..nblocks |->
        IF edge_importance_weighting
        THEN [scalar |-> FALSE, val |-> Ones(A)]
        ELSE [scalar |-> TRUE, val |-> 0]]

EdgeImportanceValue(edge_importance_weighting, A, nblocks) ==
    [s \in 1..nblocks |->
        IF edge_importance_weighting
        THEN [scalar |-> FALSE, val |-> Ones(A)]
        ELSE [scalar |-> TRUE, val |-> 1]]

\* self.A * importance: elementwise, a Python number broadcasts.
Scale(A, importance) ==
    [A EXCEPT !.val = [ix \in DOMAIN A.val |->
        A.val[ix] * (IF importance.scalar THEN importance.val
                     ELSE importance.val[ix])]]

NumBlocks == Len(BlockSchedule(3))

EdgeBuild ==
    /\ pc = "new"
    /\ pc' = "edge"
    /\ \E w \in BOOLEAN, K \in 1..MaxK, V \in 2..(MaxV + 1),
          seed \in 1..MaxSeed :
         LET A == AdjValue(seed, K, V)
         IN edge' = [phase |-> "built", weighting |-> w, A |-> A,
                     importance |-> EdgeImportanceValue(w, A, NumBlocks),
                     trained |-> FALSE, passed |-> <<>>]
    /\ UNCHANGED <<args, net, inp, heap, xs, stage, i, hist, err, params,
                   initOutcome, blk, unit>>

\* The optimizer, between construction and forward: one importance entry of
\* one block moves away from 1.
EdgeTrain ==
    /\ pc = "edge"
    /\ edge.phase = "built"
    /\ edge.weighting
    /\ ~edge.trained
    /\ \E s \in 1..NumBlocks, ix \in {<<0, 0, 0>>, <<0, 1, 0>>},
          w \in {0, 2} :
         edge' = [edge EXCEPT !.trained = TRUE,
                              !.importance[s].val[ix] = w]
    /\ UNCHANGED <<pc, args, net, inp, heap, xs, stage, i, hist, err, params,
                   initOutcome, blk, unit>>

EdgeForward ==
    /\ pc = "edge"
    /\ Len(edge.passed) < NumBlocks
    /\ edge' = [edge EXCEPT
                  !.phase = "forward",
                  !.passed = Append(@, Scale(edge.A,
                                 edge.importance[Len(edge.passed) + 1]))]
    /\ UNCHANGED <<pc, args, net, inp, heap, xs, stage, i, hist, err, params,
                   initOutcome, blk, unit>>

Next ==
    \/ Construct
    \/ InitWeightsCall
    \/ ForwardBegin
    \/ ForwardLoop
    \/ ForwardReturn
    \/ BlockConstruct
    \/ BlockCall
    \/ UnitCall
    \/ EdgeBuild
    \/ EdgeTrain
    \/ EdgeForward

Spec == Init /\ [][Next]_vars

(***************************************************************************)
(* Properties.                                                             *)
(***************************************************************************)
Called == pc \in {"loop", "done", "error"}

\* The input has V = A.size(1) - 1 nodes and in_channels + 32 channels.
ValidInput ==
    /\ inp.v = net.A.v - 1
    /\ inp.c = net.in_channel + AuxChannels

\* The input normalisation sees more than one value per channel, or is in
\* evaluation mode, or is switched off.
BatchStatisticsDefined ==
    ~(net.data_bn /\ inp.training /\ inp.n * inp.m * inp.t = 1)

OutputShape ==
    /\ xs.x.c = 256
    /\ xs.x.n = inp.n * inp.m
    /\ xs.x.v = inp.v + 1

TimeChangesOnlyAtStrideTwo ==
    \A j \in DOMAIN hist :
        hist[j].out.t # hist[j].blockIn.t => hist[j].s \in {4, 7}

EndToEnd ==
    /\ args.in_channels = 3
    /\ args.graph_cfg = CocoSpatial
    /\ args.reduction = "avg"
    /\ inp.n = 2 /\ inp.c = 3 + 32 /\ inp.t = 30 /\ inp.v = 25 /\ inp.m = 2

C3_ResidueStages ==
    Called =>
        /\ i <= Len(net.feature_residue)
        /\ \A j \in DOMAIN hist :
             /\ hist[j].s = j - 1
             /\ hist[j].s \in 0..3 =>
                  /\ hist[j].residue = hist[j].s
                  /\ hist[j].feat.st \in heap.written
             /\ hist[j].s \in 4..9 =>
                  /\ hist[j].residue = -1
                  /\ hist[j].feat.st \notin heap.written
             /\ hist[j].residue < Len(net.feature_residue)

C3_Witness == pc = "done" /\ Len(hist) = 10 /\ i = 4

\* C9: at every executed stage the feature and pose streams have the
\* channel count the block declares (in_channels, 64 x4, 128 x3, 256 x2), the
\* pose stream has A.size(1) - 1 nodes and the feature stream one, the
\* adjacency has the unit's kernel size as first dimension, and the residual
\* branch and the temporal pipeline agree in time length
\* (floor((T-1)/stride)+1) and node count; a valid input makes every stage
\* execute, and no kernel-size assertion fails.
ChannelSchedule(in_channels) ==
    <<in_channels, 64, 64, 64, 64, 128, 128, 128, 256, 256>>

StageConsistent(j) ==
    LET r == hist[j]
        b == net.st_gcn_networks[j]
    IN /\ r.feat.c = r.pos.c
       /\ r.pos.c = ChannelSchedule(args.in_channels)[j]
       /\ r.pos.c = b.in
       /\ r.pos.v = net.A.v - 1
       /\ r.feat.v = 1
       /\ r.blockIn.v = net.A.v
       /\ r.adj.k = b.gcnK
       /\ r.tcn.t = (r.blockIn.t - 1) \div b.stride + 1
       /\ r.tcn.v = r.blockIn.v
       /\ r.kind # "zero" => (r.res.t = r.tcn.t /\ r.res.v = r.tcn.v)

C9_StageShapes ==
    Called =>
        /\ \A j \in DOMAIN hist : StageConsistent(j)
        /\ err # "AssertionError"
        /\ (ValidInput /\ BatchStatisticsDefined) => pc # "error"

C9_Witness ==
    /\ pc = "done"
    /\ Len(hist) = 10
    /\ hist[5].kind = "projection"
    /\ hist[5].res.t < hist[5].blockIn.t

\* C10: forward writes neither the buffer A, nor an importance tensor, nor
\* the storage of the cached clone; the adjacency of every stage is a fresh
\* tensor, and every residue projection reads the clone as it was cached.
Protected ==
    {net.A.st, xs.clone.st}
    \cup {net.edge_importance[s].st : s \in DOMAIN net.edge_importance}

C10_ForwardFrame ==
    pc \in {"loop", "done"} =>
        /\ heap.written \cap Protected = {}
        /\ \A j \in DOMAIN hist :
             /\ hist[j].adj.st \notin Protected
             /\ hist[j].residue >= 0 => hist[j].cloneRead = xs.clone

C10_Witness ==
    /\ pc = "done"
    /\ args.edge_importance_weighting
    /\ Cardinality(heap.written) >= 10

\* C6: the residual branch is zero when residual=False, identity when
\* residual=True with equal channels and stride 1, the projection otherwise;
\* with residual=False the output is relu(tcn(gcn(x))); the backbone's blocks
\* are zero, identity x3, projection, identity x2, projection, identity x2.
C6_ResidualStrategy ==
    /\ (pc = "block" /\ blk.phase \in {"built", "called"}) =>
         blk.obj.residual =
            IF ~blk.residual THEN "zero"
            ELSE IF blk.obj.in = blk.obj.out /\ blk.obj.stride = 1
                 THEN "identity"
                 ELSE "projection"
    /\ (pc = "block" /\ blk.phase = "called" /\ ~blk.residual) =>
         blk.out = Relu(blk.tcn)
    /\ pc \in {"built", "initialised", "loop", "done", "error"} =>
         [s \in 1..10 |-> net.st_gcn_networks[s].residual] =
            <<"zero", "identity", "identity", "identity", "projection",
              "identity", "identity", "projection", "identity", "identity">>

C6_Witness ==
    /\ pc = "block"
    /\ blk.phase = "called"
    /\ ~blk.residual
    /\ blk.x # 0 /\ blk.projected # 0 /\ blk.tcn > 0

\* C7: init_weights loads the checkpoint and initialises nothing from
\* scratch when pretrained is a string; initialises every convolution, linear
\* and normalisation layer and loads nothing when it is None; and otherwise
\* raises a TypeError with no parameter modified.
C7_InitWeights ==
    pc = "initialised" =>
        LET mods == Modules(net, args.edge_importance_weighting)
        IN IF args.pretrained.type = "str"
           THEN /\ initOutcome = "loaded"
                /\ \A m \in DOMAIN params :
                     params[m] \in {"default", "checkpoint"}
           ELSE IF args.pretrained.type = "NoneType"
           THEN /\ initOutcome = "scratch"
                /\ \A m \in DOMAIN params :
                     /\ mods[m] = "Conv2d" => params[m] = "kaiming_init"
                     /\ mods[m] = "Linear" => params[m] = "normal_init"
                     /\ mods[m] \in {"BatchNorm1d", "BatchNorm2d"} =>
                            params[m] = "constant_init"
                     /\ params[m] # "checkpoint"
           ELSE /\ initOutcome = "TypeError"
                /\ err = "TypeError"
                /\ \A m \in DOMAIN params : params[m] = "default"

C7_Witness ==
    /\ pc = "initialised"
    /\ initOutcome = "TypeError"
    /\ Len(params) > 0

\* C8: GLBGCN construction fails exactly when reduction is neither 'avg' nor
\* 'max'; GLBGCNBlock construction fails exactly when kernel_size has not two
\* elements or its first element is even; a failed construction yields no
\* object.
C8_ConstructionValidation ==
    /\ pc \notin {"new", "block", "unit", "edge"} =>
         /\ (pc = "failed") <=> (args.reduction \notin {"avg", "max"})
         /\ pc = "failed" => (net = NoNet /\ err = "AssertionError")
    /\ pc = "block" =>
         /\ (blk.phase = "failed") <=>
               \/ Len(blk.kernel_size) # 2
               \/ blk.kernel_size[1] % 2 = 0
         /\ blk.phase = "failed" => (~blk.obj.ok /\ err = "AssertionError")

C8_Witness ==
    /\ pc = "block"
    /\ blk.phase = "failed"
    /\ Len(blk.kernel_size) = 2

\* C5: when A.size(0) equals the kernel size K the unit returns
\* out[n,c,t,w] = sum over k, v of conv(x)[n, k*Cout + c, t, v] * A[k,v,w],
\* of shape (N, Cout, T, V), and the adjacency it was given; otherwise it
\* fails with an assertion before the convolution runs.
ConvAt(n, ch, t, v) ==
    unit.conv.storage[((n * unit.conv.kc + ch) * unit.conv.t + t)
                      * unit.conv.v + v]

Contraction(n, c, t, w) ==
    SumSeq([j \in 1..(unit.kernel_size * unit.conv.v) |->
        LET k == (j - 1) % unit.kernel_size
            v == (j - 1) \div unit.kernel_size
        IN ConvAt(n, k * unit.out_channels + c, t, v)
           * unit.adj.val[<<k, v, w>>]])

C5_GraphConvolution ==
    pc = "unit" =>
        IF unit.adj.k = unit.kernel_size
        THEN /\ unit.result.err = "none"
             /\ unit.result.adj_mat = unit.adj
             /\ DOMAIN unit.result.x =
                   (0..(unit.conv.n - 1)) \X (0..(unit.out_channels - 1))
                   \X (0..(unit.conv.t - 1)) \X (0..(unit.conv.v - 1))
             /\ \A ix \in DOMAIN unit.result.x :
                   unit.result.x[ix] = Contraction(ix[1], ix[2], ix[3], ix[4])
        ELSE /\ unit.result.err = "AssertionError"
             /\ ~unit.result.convRan
             /\ unit.result.adj_mat = unit.adj

C5_Witness ==
    /\ pc = "unit"
    /\ unit.phase = "returned"
    /\ unit.kernel_size > 1 /\ unit.out_channels > 1 /\ unit.conv.v > 1
    /\ \E ix \in DOMAIN unit.result.x : unit.result.x[ix] # 0

\* C4: with edge importance disabled, and with it enabled while the ten
\* importance tensors are all ones, the adjacency handed to every block
\* equals A.
AllOnes ==
    \A s \in DOMAIN edge.importance :
        /\ ~edge.importance[s].scalar
        /\ \A ix \in DOMAIN edge.A.val : edge.importance[s].val[ix] = 1

C4_ImportanceIdentity ==
    (pc = "edge" /\ (~edge.weighting \/ AllOnes)) =>
        \A j \in DOMAIN edge.passed : edge.passed[j] = edge.A

C4_Witness ==
    /\ pc = "edge"
    /\ edge.weighting
    /\ AllOnes
    /\ Len(edge.passed) = 10
    /\ \E ix \in DOMAIN edge.A.val : edge.A.val[ix] \notin {0, 1}

====
